---- MODULE Spec2Model ----
(***************************************************************************)
(* porter: a terminal HTTP workbench.  The module models                   *)
(*   - validate_url and HTTPResponse.status_text (pure functions),         *)
(*   - send_request and the send handler PorterApp.action_send_request,    *)
(*   - the arrow-key focus navigation of the request editor's widgets.     *)
(* Text that the code inspects character by character (the URL) is a       *)
(* sequence of one-character strings; text that is only formatted is a     *)
(* TLA+ string; a response body, whose length matters near 5 MiB, is a     *)
(* run-length encoded text.                                                *)
(***************************************************************************)
EXTENDS Integers, Sequences, FiniteSets, TLC

VARIABLES
    v_url,      \* validate_url: the argument of the call
    v_result,   \* validate_url: the returned tuple, once returned
    st_code,    \* HTTPResponse.status_code of the response whose text is read
    st_text,    \* HTTPResponse.status_text, once read
    method_value,    \* #method-select: Select.value
    url_value,       \* #url-input: Input.value
    rows,            \* #headers-container: the mounted HeaderRow widgets, in order
    body_text,       \* #body-text: TextArea.text
    focused,         \* the widget that has the focus
    response_viewer, \* #response-label, #response-body, #response-headers, #response-raw
    cursor,          \* where the cursor of the focused widget is: <<line, column>>
    key_event,       \* the last arrow key and what its on_key handler did with it
    handlers,        \* the runs of action_send_request, in the order they were triggered
    clock,           \* time.time(), in ticks
    focus_call,      \* _focus_previous/_focus_next: a call, its arguments and its result
    collection_file, \* the collection file: its text, or that it does not exist
    store_call,      \* save_request/load_request: the last call and its result
    action_call      \* on_button_pressed/action_quit: the last run and what it did

vars == <<v_url, v_result, st_code, st_text, method_value, url_value, rows, body_text,
          focused, cursor, key_event, response_viewer, handlers, clock,
          focus_call, collection_file, store_call, action_call>>

validateVars == <<v_url, v_result>>
statusVars == <<st_code, st_text>>
focusVars == <<focus_call>>
storeVars == <<collection_file, store_call>>
actionVars == <<action_call>>
editorVars == <<method_value, url_value, rows, body_text>>
navVars == <<cursor, key_event>>
appVars == <<method_value, url_value, rows, body_text, focused, cursor, key_event,
             response_viewer, handlers, clock, action_call>>

(***************************************************************************)
(* Bounds of the model.                                                    *)
(***************************************************************************)
MaxTail == 2        \* longest free part of a candidate URL, in characters
BodyExtra == 7      \* how far past the limit the longest response body reaches
MaxClock == 5       \* the clock stops here
MaxSyncDelay == 1   \* longest time the handler spends before it calls send_request
TicksPerMs == 2     \* resolution of the clock
MaxRows == 3        \* most header rows the Add Header button mounts
MaxOrder == 4       \* longest arranged list of widgets given to a focus method
MaxHandlers == 2    \* most runs of the send handler in one behaviour

(***************************************************************************)
(* Python values.                                                          *)
(***************************************************************************)
None == "None"                      \* Python's None where a str is optional
NotReturned == [returned |-> FALSE] \* a call that has not returned yet

(***************************************************************************)
(* Character sequences (Python str inspected by the code).                 *)
(***************************************************************************)
\* The characters str.strip() removes; a representative subset of Python's.
Whitespace == {" ", "\t", "\n"}

\* str.startswith(prefix)
startswith(s, prefix) ==
    /\ Len(s) >= Len(prefix)
    /\ SubSeq(s, 1, Len(prefix)) = prefix

RECURSIVE lstrip(_)
lstrip(s) ==
    IF s = <<>> THEN <<>>
    ELSE IF Head(s) \in Whitespace THEN lstrip(Tail(s))
    ELSE s

RECURSIVE rstrip(_)
rstrip(s) ==
    IF s = <<>> THEN <<>>
    ELSE IF s[Len(s)] \in Whitespace THEN rstrip(SubSeq(s, 1, Len(s) - 1))
    ELSE s

\* str.strip()
strip(s) == rstrip(lstrip(s))

\* c in s
contains(s, c) == \E i \in 1..Len(s) : s[i] = c

\* All sequences over alphabet of length at most n.
RECURSIVE SeqsUpTo(_, _)
SeqsUpTo(alphabet, n) ==
    IF n = 0 THEN {<<>>}
    ELSE LET shorter == SeqsUpTo(alphabet, n - 1)
         IN  shorter \cup {Append(s, c) : s \in shorter, c \in alphabet}

(***************************************************************************)
(* validate_url                                                            *)
(***************************************************************************)
HttpPrefix == <<"h", "t", "t", "p", ":", "/", "/">>
HttpsPrefix == <<"h", "t", "t", "p", "s", ":", "/", "/">>

MsgEmpty == "URL cannot be empty"
MsgPrefix == "URL must start with http:// or https://"
MsgSpaces == "URL cannot contain spaces"

\* The mutant checks for spaces before it checks the scheme.
validate_url_space_first(url) ==
    IF url = <<>> \/ strip(url) = <<>>
    THEN [is_valid |-> FALSE, error_message |-> MsgEmpty]
    ELSE LET u == strip(url)
         IN  IF contains(u, " ")
             THEN [is_valid |-> FALSE, error_message |-> MsgSpaces]
             ELSE IF ~(startswith(u, HttpPrefix) \/ startswith(u, HttpsPrefix))
             THEN [is_valid |-> FALSE, error_message |-> MsgPrefix]
             ELSE [is_valid |-> TRUE, error_message |-> None]

validate_url(url) ==
    IF url = <<>> \/ strip(url) = <<>>
    THEN [is_valid |-> FALSE, error_message |-> MsgEmpty]
    ELSE LET u == strip(url)
         IN  IF ~(startswith(u, HttpPrefix) \/ startswith(u, HttpsPrefix))
             THEN [is_valid |-> FALSE, error_message |-> MsgPrefix]
             ELSE IF contains(u, " ")
             THEN [is_valid |-> FALSE, error_message |-> MsgSpaces]
             ELSE [is_valid |-> TRUE, error_message |-> None]

\* Candidate URLs: padding, a scheme-like start, a free tail, padding.
UrlPads == {<<>>, <<" ">>, <<"\t">>, <<"\n", " ">>}
UrlStarts ==
    { <<>>, HttpPrefix, HttpsPrefix,
      <<"h", "t", "t", "p", ":", "/">>,
      <<"h", "t", "t", "p", "s", ":", "/">>,
      <<"H", "T", "T", "P", ":", "/", "/">>,
      <<"f", "t", "p", ":", "/", "/">>,
      <<"x">> \o HttpPrefix }
UrlInputs ==
    { lead \o start \o tail \o trail :
        lead \in UrlPads, start \in UrlStarts,
        tail \in SeqsUpTo({"a", " ", "\t"}, MaxTail), trail \in UrlPads }

ValidateCall ==
    /\ v_result = NotReturned
    /\ v_result' = [returned |-> TRUE] @@ validate_url(v_url)
    /\ UNCHANGED v_url

ValidateInit ==
    /\ v_url \in UrlInputs
    /\ v_result = NotReturned

ValidateIdle ==
    /\ v_url = <<>>
    /\ v_result = NotReturned

(***************************************************************************)
(* HTTPResponse.status_text                                                *)
(***************************************************************************)
\* status_texts: the phrase of a code, "" for a code outside the table
\* (dict.get with default "").
status_texts(code) ==
    CASE code = 200 -> "OK"
      [] code = 201 -> "Created"
      [] code = 204 -> "No Content"
      [] code = 400 -> "Bad Request"
      [] code = 401 -> "Unauthorized"
      [] code = 403 -> "Forbidden"
      [] code = 404 -> "Not Found"
      [] code = 500 -> "Internal Server Error"
      [] code = 502 -> "Bad Gateway"
      [] code = 503 -> "Service Unavailable"
      [] OTHER -> ""

\* The mutant formats every code alike, leaving a trailing space when the
\* table has no phrase.
status_text_always_joined(status_code) ==
    ToString(status_code) \o " " \o status_texts(status_code)

status_text(status_code) ==
    LET text == status_texts(status_code)
    IN  IF text # "" THEN ToString(status_code) \o " " \o text
        ELSE ToString(status_code)

StatusTextRead ==
    /\ st_text = None
    /\ st_text' = status_text(st_code)
    /\ UNCHANGED st_code

StatusInit ==
    /\ st_code \in {0} \cup (100..599)   \* 0: the status_code of an error response
    /\ st_text = None

StatusIdle ==
    /\ st_code = 0
    /\ st_text = None

(***************************************************************************)
(* Run-length encoded text (a response body).  A text is a sequence of     *)
(* runs [c |-> character, n |-> count], every count at least 1 and         *)
(* adjacent runs of different characters, so equal texts are equal values. *)
(***************************************************************************)
\* len(t)
RECURSIVE text_len(_)
text_len(t) == IF t = <<>> THEN 0 ELSE Head(t).n + text_len(Tail(t))

\* t[:k], for k >= 0
RECURSIVE text_prefix(_, _)
text_prefix(t, k) ==
    IF k <= 0 \/ t = <<>> THEN <<>>
    ELSE IF Head(t).n <= k THEN <<Head(t)>> \o text_prefix(Tail(t), k - Head(t).n)
    ELSE <<[c |-> Head(t).c, n |-> k]>>

\* a + b
text_concat(a, b) ==
    IF a = <<>> THEN b
    ELSE IF b = <<>> THEN a
    ELSE IF a[Len(a)].c = Head(b).c
         THEN SubSeq(a, 1, Len(a) - 1)
                \o <<[c |-> Head(b).c, n |-> a[Len(a)].n + Head(b).n]>>
                \o Tail(b)
         ELSE a \o b

\* The text of a character sequence.
RECURSIVE text_of(_)
text_of(chars) ==
    IF chars = <<>> THEN <<>>
    ELSE text_concat(<<[c |-> Head(chars), n |-> 1]>>, text_of(Tail(chars)))

(***************************************************************************)
(* send_request                                                            *)
(***************************************************************************)
max_size == 5 * 1024 * 1024

\* "\n\n[Response truncated at 5MB]"
TruncationMarkerChars ==
    <<"\n", "\n", "[", "R", "e", "s", "p", "o", "n", "s", "e", " ",
      "t", "r", "u", "n", "c", "a", "t", "e", "d", " ", "a", "t", " ",
      "5", "M", "B", "]">>
TruncationMarker == text_of(TruncationMarkerChars)

\* The mutant cuts a body that is exactly at the limit.
truncate_at_limit(response_body) ==
    IF text_len(response_body) >= max_size
    THEN text_concat(text_prefix(response_body, max_size), TruncationMarker)
    ELSE response_body

\* The mutant cuts the body and appends no marker.
truncate_without_marker(response_body) ==
    IF text_len(response_body) > max_size
    THEN text_prefix(response_body, max_size)
    ELSE response_body

\* Lines 83-86: the body HTTPResponse gets, from response.text.
truncate(response_body) ==
    IF text_len(response_body) > max_size
    THEN text_concat(text_prefix(response_body, max_size), TruncationMarker)
    ELSE response_body

\* Select.BLANK: the value of a Select with nothing chosen (not a str).
BLANK == "Select.BLANK"
SelectOptions == {"GET", "POST", "PUT", "PATCH", "DELETE", "HEAD", "OPTIONS"}

\* method.upper(), for a str.
upper(method) ==
    CASE method = "get" -> "GET"
      [] method = "post" -> "POST"
      [] method = "put" -> "PUT"
      [] method = "patch" -> "PATCH"
      [] method = "delete" -> "DELETE"
      [] method = "head" -> "HEAD"
      [] method = "options" -> "OPTIONS"
      [] OTHER -> method

\* An Optional[str] argument: Python's None, or a character sequence.
NoBody == [is_none |-> TRUE, text |-> <<>>]
SomeBody(text) == [is_none |-> FALSE, text |-> text]

\* body.encode() if body else None
content_of(body) ==
    IF body.is_none \/ body.text = <<>> THEN [is_none |-> TRUE, bytes |-> <<>>]
    ELSE [is_none |-> FALSE, bytes |-> body.text]

\* The exception classes the transport and the argument evaluation raise,
\* each with its base class (httpx's hierarchy under Exception).
ExcParent(cls) ==
    CASE cls = "ConnectTimeout" -> "TimeoutException"
      [] cls = "ReadTimeout" -> "TimeoutException"
      [] cls = "TimeoutException" -> "TransportError"
      [] cls = "ConnectError" -> "NetworkError"
      [] cls = "ReadError" -> "NetworkError"
      [] cls = "NetworkError" -> "TransportError"
      [] cls = "UnsupportedProtocol" -> "TransportError"
      [] cls = "TransportError" -> "HTTPError"
      [] cls = "HTTPError" -> "Exception"
      [] cls = "InvalidURL" -> "Exception"
      [] cls = "AttributeError" -> "Exception"
      [] OTHER -> "BaseException"

\* isinstance(e, base) for an exception e of class cls
RECURSIVE isinstance(_, _)
isinstance(cls, base) ==
    \/ cls = base
    \/ /\ cls # "BaseException"
       /\ isinstance(ExcParent(cls), base)

\* The mutant's last clause catches httpx's errors only.
except_clauses_httpx_only == <<"TimeoutException", "ConnectError", "HTTPError">>

\* The mutant's second clause catches every network error.
except_clauses_network_error == <<"TimeoutException", "NetworkError", "Exception">>

\* The except clauses of send_request, in order (lines 95, 105, 115).
except_clauses == <<"TimeoutException", "ConnectError", "Exception">>

\* The first clause that catches an exception of class cls, 0 if none does.
caught_by(cls) ==
    LET hits == {i \in 1..Len(except_clauses) : isinstance(cls, except_clauses[i])}
    IN  IF hits = {} THEN 0 ELSE CHOOSE i \in hits : \A j \in hits : i <= j

\* int(x) of the quotient num / den: truncation towards zero.
int_div(num, den) ==
    IF num >= 0 THEN num \div den ELSE -((-num) \div den)

\* int((time.time() - start_time) * 1000), the clock being in ticks.
duration_ms_of(start_time, now) ==
    int_div((now - start_time) * 1000, TicksPerMs * 1000)

\* str(timeout) of a float given in tenths of a second: 300 is "30.0".
float_str(tenths) == ToString(tenths \div 10) \o "." \o ToString(tenths % 10)

HTTPResponse(status_code, headers, body, duration_ms, error) ==
    [status_code |-> status_code, headers |-> headers, body |-> body,
     duration_ms |-> duration_ms, error |-> error]

\* What send_request does with the outcome of the try block: the value it
\* returns, or the exception that leaves it.  An outcome is a response
\* [kind |-> "response", status_code, headers, text] of client.request or an
\* exception [kind |-> "raise", cls, msg] raised inside the try block.
send_request_outcome(outcome, start_time, now, timeout) ==
    LET duration_ms == duration_ms_of(start_time, now)
        failure(error) == [raised |-> FALSE,
                           value |-> HTTPResponse(0, <<>>, <<>>, duration_ms, error)]
    IN  IF outcome.kind = "response"
        THEN [raised |-> FALSE,
              value |-> HTTPResponse(outcome.status_code, outcome.headers,
                                     truncate(outcome.text), duration_ms, None)]
        ELSE CASE caught_by(outcome.cls) = 1 ->
                    failure("Request timeout after " \o float_str(timeout) \o "s")
               [] caught_by(outcome.cls) = 2 ->
                    failure("Connection error: " \o outcome.msg)
               [] caught_by(outcome.cls) = 3 ->
                    failure("Error: " \o outcome.msg)
               [] OTHER -> [raised |-> TRUE, cls |-> outcome.cls]

(***************************************************************************)
(* The response viewer.  The text of an area is a string followed by a     *)
(* run-length encoded text: [head |-> string, tail |-> text].              *)
(***************************************************************************)
AreaText(head, tail) == [head |-> head, tail |-> tail]

\* ResponseViewer.compose: the label reads "Response", the areas are empty.
ResponseViewerInit ==
    [label |-> "Response", body |-> AreaText("", <<>>),
     headers |-> AreaText("", <<>>), raw |-> AreaText("", <<>>)]

\* The one response body of the model that json.loads accepts, {"a":1}, and
\* json.dumps(parsed, indent=2) of it.
JsonBody == text_of(<<"{", "\"", "a", "\"", ":", "1", "}">>)

\* Lines 290-295: the pretty-printed JSON, or the body as it is.
body_shown(body) ==
    IF body = JsonBody
    THEN text_of(<<"{", "\n", " ", " ", "\"", "a", "\"", ":", " ", "1", "\n", "}">>)
    ELSE body

\* "\n".join(f"{key}: {value}" for key, value in headers.items())
RECURSIVE headers_text(_)
headers_text(headers) ==
    IF headers = <<>> THEN ""
    ELSE IF Len(headers) = 1 THEN headers[1][1] \o ": " \o headers[1][2]
    ELSE headers[1][1] \o ": " \o headers[1][2] \o "\n" \o headers_text(Tail(headers))

\* `if response.error`: None and "" are false.
truthy(error) == error # None /\ error # ""

\* The mutant shows a failure's message in the headers view too.
display_response_error_in_all_tabs(response) ==
    LET ms == ToString(response.duration_ms) \o "ms"
    IN  IF truthy(response.error)
        THEN [label |-> "Response - Error (" \o ms \o ")",
              body |-> AreaText(response.error, <<>>),
              headers |-> AreaText(response.error, <<>>),
              raw |-> AreaText("Error: " \o response.error \o "\nDuration: " \o ms, <<>>)]
        ELSE [label |-> "Response - " \o status_text(response.status_code)
                            \o " (" \o ms \o ")",
              body |-> AreaText("", body_shown(response.body)),
              headers |-> AreaText(headers_text(response.headers), <<>>),
              raw |-> AreaText(status_text(response.status_code) \o "\n"
                                 \o "Duration: " \o ms \o "\n\n"
                                 \o "Headers:\n" \o headers_text(response.headers)
                                 \o "\n\nBody:\n",
                               response.body)]

\* _display_response: the viewer it leaves.
display_response(response) ==
    LET ms == ToString(response.duration_ms) \o "ms"
    IN  IF truthy(response.error)
        THEN [label |-> "Response - Error (" \o ms \o ")",
              body |-> AreaText(response.error, <<>>),
              headers |-> AreaText("", <<>>),
              raw |-> AreaText("Error: " \o response.error \o "\nDuration: " \o ms, <<>>)]
        ELSE [label |-> "Response - " \o status_text(response.status_code)
                            \o " (" \o ms \o ")",
              body |-> AreaText("", body_shown(response.body)),
              headers |-> AreaText(headers_text(response.headers), <<>>),
              raw |-> AreaText(status_text(response.status_code) \o "\n"
                                 \o "Duration: " \o ms \o "\n\n"
                                 \o "Headers:\n" \o headers_text(response.headers)
                                 \o "\n\nBody:\n",
                               response.body)]

\* _display_error: the viewer it leaves.
display_error(error) ==
    [label |-> "Response - Error", body |-> AreaText(error, <<>>),
     headers |-> AreaText(error, <<>>), raw |-> AreaText(error, <<>>)]

(***************************************************************************)
(* The request editor.                                                     *)
(***************************************************************************)
\* A widget: its id or class, and the HeaderRow it belongs to (0: none).
Widget(w, row) == [w |-> w, row |-> row]
MethodSelect == Widget("method-select", 0)
UrlInput == Widget("url-input", 0)

\* HeaderRow.compose: a row holds two inputs, the key and the value.
HeaderRow(id, key, value) == [id |-> id, inputs |-> 2, key |-> key, value |-> value]

\* headers[key] = value on a dict kept as a sequence of <<key, value>> pairs
\* in insertion order.
dict_set(d, key, value) ==
    IF \E i \in 1..Len(d) : d[i][1] = key
    THEN [i \in 1..Len(d) |-> IF d[i][1] = key THEN <<key, value>> ELSE d[i]]
    ELSE Append(d, <<key, value>>)

\* _get_headers_from_ui: the loop over the rows, headers being the dict so far.
RECURSIVE headers_from_rows(_, _)
headers_from_rows(rs, headers) ==
    IF rs = <<>> THEN headers
    ELSE LET row == Head(rs)
             key == strip(row.key)
             value == strip(row.value)
         IN  headers_from_rows(Tail(rs),
                IF row.inputs = 2 /\ key # <<>> THEN dict_set(headers, key, value)
                ELSE headers)

get_headers_from_ui == headers_from_rows(rows, <<>>)

(***************************************************************************)
(* Focus navigation with the arrow keys (widgets.py).                      *)
(***************************************************************************)
SendButton == Widget("send-button", 0)
AddHeaderButton == Widget("add-header-button", 0)
RemoveHeaderButton == Widget("remove-header-button", 0)
BodyText == Widget("body-text", 0)
HeaderKey(row) == Widget("header-key", row.id)
HeaderValue(row) == Widget("header-value", row.id)

\* The class a widget is an instance of, among those the code tests for.
class_of(widget) ==
    CASE widget.w = "method-select" -> "Select"
      [] widget.w \in {"url-input", "header-key", "header-value"} -> "NavigableInput"
      [] widget.w \in {"send-button", "add-header-button", "remove-header-button"} ->
            "NavigableButton"
      [] widget.w = "body-text" -> "NavigableTextArea"
      [] OTHER -> "Widget"

\* The descendants of #headers-container, depth first.
RECURSIVE walk_rows(_)
walk_rows(rs) ==
    IF rs = <<>> THEN <<>>
    ELSE <<Widget("HeaderRow", Head(rs).id), HeaderKey(Head(rs)), HeaderValue(Head(rs))>>
            \o walk_rows(Tail(rs))

\* request_editor.walk_children(): the descendants of the RequestEditor,
\* depth first, in the order the compose methods yield them.
walk_children(rs) ==
    <<Widget("request-line", 0), MethodSelect, UrlInput, SendButton,
      Widget("HeadersEditor", 0), Widget("headers-label", 0),
      Widget("headers-container", 0)>>
      \o walk_rows(rs)
      \o <<Widget("headers-buttons", 0), AddHeaderButton, RemoveHeaderButton,
           Widget("BodyEditor", 0), Widget("body-label", 0), BodyText>>

NavigableClasses == {"Select", "NavigableInput", "NavigableButton", "NavigableTextArea"}

\* The mutant serves a stale order: it misses the row mounted last.
get_navigable_widgets_stale(rs) ==
    SelectSeq(walk_children(IF rs = <<>> THEN rs ELSE SubSeq(rs, 1, Len(rs) - 1)),
              LAMBDA widget : class_of(widget) \in NavigableClasses)

get_navigable_widgets(rs) ==
    SelectSeq(walk_children(rs), LAMBDA widget : class_of(widget) \in NavigableClasses)

\* focusable.index(self), counted from 1; 0 stands for the ValueError.
index(focusable, self) ==
    IF \E i \in 1..Len(focusable) : focusable[i] = self
    THEN CHOOSE i \in 1..Len(focusable) :
            /\ focusable[i] = self
            /\ \A j \in 1..(i - 1) : focusable[j] # self
    ELSE 0

\* _focus_previous and _focus_next: the widget that has the focus when they
\* return.
\* The mutant wraps around from the first element to the last.
_focus_previous_wraps(self, focusable) ==
    IF focusable = <<>> THEN self
    ELSE LET current_index == index(focusable, self)
         IN  IF current_index > 1 THEN focusable[current_index - 1]
             ELSE IF current_index = 1 THEN focusable[Len(focusable)] ELSE self

_focus_previous(self, focusable) ==
    IF focusable = <<>> THEN self
    ELSE LET current_index == index(focusable, self)
         IN  IF current_index > 1 THEN focusable[current_index - 1] ELSE self

_focus_next(self, focusable) ==
    IF focusable = <<>> THEN self
    ELSE LET current_index == index(focusable, self)
         IN  IF current_index >= 1 /\ current_index < Len(focusable)
             THEN focusable[current_index + 1] ELSE self

\* What an on_key handler did with the event: whether it called
\* event.prevent_default(), and which focus method it called.
Handled(call) == [prevent_default |-> TRUE, call |-> call]
NotHandled == [prevent_default |-> FALSE, call |-> "none"]

\* The mutant leaves the field on Left at any position.
NavigableInput_on_key_left_anywhere(key, cursor_position, value) ==
    CASE key \in {"up", "left"} -> Handled("_focus_previous")
      [] key = "down" -> Handled("_focus_next")
      [] key = "right" ->
            IF cursor_position = Len(value) THEN Handled("_focus_next") ELSE NotHandled
      [] OTHER -> NotHandled

\* The mutant leaves the field on Right at any position.
NavigableInput_on_key_right_anywhere(key, cursor_position, value) ==
    CASE key = "up" -> Handled("_focus_previous")
      [] key \in {"down", "right"} -> Handled("_focus_next")
      [] key = "left" ->
            IF cursor_position = 0 THEN Handled("_focus_previous") ELSE NotHandled
      [] OTHER -> NotHandled

NavigableInput_on_key(key, cursor_position, value) ==
    CASE key = "up" -> Handled("_focus_previous")
      [] key = "down" -> Handled("_focus_next")
      [] key = "left" ->
            IF cursor_position = 0 THEN Handled("_focus_previous") ELSE NotHandled
      [] key = "right" ->
            IF cursor_position = Len(value) THEN Handled("_focus_next") ELSE NotHandled
      [] OTHER -> NotHandled

\* The mutant leaves the field on Up from any line.
NavigableTextArea_on_key_up_anywhere(key, cursor_location) ==
    CASE key = "up" -> Handled("_focus_previous")
      [] key = "left" ->
            IF cursor_location = <<0, 0>> THEN Handled("_focus_previous") ELSE NotHandled
      [] OTHER -> NotHandled

NavigableTextArea_on_key(key, cursor_location) ==
    CASE key = "up" ->
            IF cursor_location[1] = 0 THEN Handled("_focus_previous") ELSE NotHandled
      [] key = "left" ->
            IF cursor_location = <<0, 0>> THEN Handled("_focus_previous") ELSE NotHandled
      [] OTHER -> NotHandled

NavigableButton_on_key(key) ==
    IF key \in {"up", "down", "left", "right"}
    THEN CASE key = "up" -> Handled("_focus_previous")
           [] key = "down" -> Handled("_focus_next")
           [] key = "left" -> Handled("_focus_previous")
           [] key = "right" -> Handled("_focus_next")
    ELSE NotHandled

\* The lines of a text: the text split at its newlines.
RECURSIVE splitlines(_, _)
splitlines(text, line) ==
    IF text = <<>> THEN <<line>>
    ELSE IF Head(text) = "\n" THEN <<line>> \o splitlines(Tail(text), <<>>)
    ELSE splitlines(Tail(text), Append(line, Head(text)))

\* Input.value of a single-line field.
value_of(widget) ==
    CASE widget.w = "url-input" -> url_value
      [] widget.w = "header-key" -> rows[widget.row].key
      [] widget.w = "header-value" -> rows[widget.row].value

\* The places the cursor of a widget can be at, as <<line, column>>:
\* Input.cursor_position is the column, TextArea.cursor_location the pair.
cursor_locations(widget) ==
    CASE class_of(widget) = "NavigableInput" ->
            {<<0, column>> : column \in 0..Len(value_of(widget))}
      [] class_of(widget) = "NavigableTextArea" ->
            LET document == splitlines(body_text, <<>>)
            IN  UNION {{<<line - 1, column>> : column \in 0..Len(document[line])} :
                          line \in 1..Len(document)}
      [] OTHER -> {<<0, 0>>}

\* The on_key handler this repository defines for the widget's class; the
\* Select is Textual's own and has none.
on_key(self, key, at) ==
    CASE class_of(self) = "NavigableInput" -> NavigableInput_on_key(key, at[2], value_of(self))
      [] class_of(self) = "NavigableTextArea" -> NavigableTextArea_on_key(key, at)
      [] class_of(self) = "NavigableButton" -> NavigableButton_on_key(key)
      [] OTHER -> NotHandled

NoKey == [key |-> "none"]

\* An arrow key reaches the focused widget.  A key the handler does not
\* take goes on to the widget's own handling, which may put its cursor
\* anywhere; so may the widget that receives the focus.
Key(key) ==
    LET self == focused
        did == on_key(self, key, cursor)
        focusable == get_navigable_widgets(rows)
        target == CASE did.call = "_focus_previous" -> _focus_previous(self, focusable)
                    [] did.call = "_focus_next" -> _focus_next(self, focusable)
                    [] OTHER -> self
    IN  /\ focused' = target
        /\ IF target = self /\ did.prevent_default
           THEN cursor' = cursor
           ELSE cursor' \in cursor_locations(target)
        /\ key_event' = [key |-> key, widget |-> self, cursor |-> cursor,
                         value |-> IF class_of(self) = "NavigableInput"
                                   THEN value_of(self) ELSE <<>>,
                         mounted |-> Len(rows),
                         order |-> IF did.call = "none" THEN <<>> ELSE focusable,
                         prevent_default |-> did.prevent_default, call |-> did.call,
                         focused |-> target]
        /\ UNCHANGED <<editorVars, response_viewer, handlers, clock, validateVars,
                       statusVars, focusVars, storeVars, actionVars>>

\* _add_header_row and _remove_header_row.
_add_header_row == rows' = Append(rows, HeaderRow(Len(rows) + 1, <<>>, <<>>))
_remove_header_row ==
    IF Len(rows) > 0 THEN rows' = SubSeq(rows, 1, Len(rows) - 1) ELSE rows' = rows

\* No button has been pressed and no action but the send has run.
NoActionCall == [op |-> "none"]
ActionIdle == action_call = NoActionCall

\* on_button_pressed: the focused button is pressed.  The send branch calls
\* the coroutine function action_send_request without awaiting it, which
\* runs none of its body.
on_button_pressed(button) ==
    /\ focused = button
    /\ CASE button.w = "add-header-button" -> Len(rows) < MaxRows /\ _add_header_row
         [] button.w = "remove-header-button" -> _remove_header_row
         [] button.w = "send-button" -> rows' = rows
    /\ action_call' = [op |-> "on_button_pressed", button |-> button.w]
    /\ UNCHANGED <<method_value, url_value, body_text, focused, cursor, key_event,
                   response_viewer, handlers, clock,
                   validateVars, statusVars, focusVars, storeVars>>

\* The contents of the editor and the place of the cursor when keys arrive.
NavRows ==
    { <<>>,
      <<HeaderRow(1, <<"A", "b", "c", "d", "e">>, <<"v">>)>>,
      <<HeaderRow(1, <<>>, <<"v", "w">>), HeaderRow(2, <<"B">>, <<>>)>> }

NavInit ==
    /\ method_value = "GET"
    /\ url_value \in {<<>>, HttpPrefix \o <<"a">>}
    /\ rows \in NavRows
    /\ body_text \in {<<>>, <<"a", "b">>, <<"a", "\n", "b", "c", "\n">>}
    /\ focused \in {get_navigable_widgets(rows)[i] :
                      i \in 1..Len(get_navigable_widgets(rows))}
    /\ cursor \in cursor_locations(focused)
    /\ key_event = NoKey
    /\ response_viewer = ResponseViewerInit
    /\ handlers = <<>>
    /\ clock = 0

(***************************************************************************)
(* _focus_previous and _focus_next on their own: a widget and the list     *)
(* get_navigable_widgets returned to it.                                   *)
(***************************************************************************)
\* except (ValueError, IndexError): pass
focus_except_index_error_only == {"IndexError"}
focus_except == {"ValueError", "IndexError"}

\* The exception that leaves the method, "none" when none does:
\* focusable.index(self) raises ValueError when self is not in the list.
focus_raised(self, focusable) ==
    LET exception == IF focusable # <<>> /\ index(focusable, self) = 0
                     THEN "ValueError" ELSE "none"
    IN  IF exception \in focus_except THEN "none" ELSE exception

\* The focus methods each class defines.
focus_methods(widget) ==
    CASE class_of(widget) \in {"NavigableInput", "NavigableButton"} ->
            {"_focus_previous", "_focus_next"}
      [] class_of(widget) = "NavigableTextArea" -> {"_focus_previous"}
      [] OTHER -> {}

FocusPrevious ==
    /\ focus_call.method = "none"
    /\ "_focus_previous" \in focus_methods(focus_call.self)
    /\ focus_call' = [focus_call EXCEPT
          !.method = "_focus_previous",
          !.focused = _focus_previous(focus_call.self, focus_call.focusable),
          !.raised = focus_raised(focus_call.self, focus_call.focusable)]

FocusNext ==
    /\ focus_call.method = "none"
    /\ "_focus_next" \in focus_methods(focus_call.self)
    /\ focus_call' = [focus_call EXCEPT
          !.method = "_focus_next",
          !.focused = _focus_next(focus_call.self, focus_call.focusable),
          !.raised = focus_raised(focus_call.self, focus_call.focusable)]

\* The lists: every arrangement of up to MaxOrder of these widgets, and the
\* orders of the editor with no, one and two header rows.
FocusWidgets ==
    {MethodSelect, UrlInput, SendButton, Widget("header-key", 1),
     Widget("header-value", 1), BodyText}
FocusOrders ==
    {order \in SeqsUpTo(FocusWidgets, MaxOrder) :
        \A i, j \in 1..Len(order) : i # j => order[i] # order[j]}
      \cup {get_navigable_widgets(rs) : rs \in NavRows}

FocusInit ==
    focus_call \in {[method |-> "none", self |-> self, focusable |-> focusable,
                     focused |-> self, raised |-> "none"] :
                       self \in FocusWidgets, focusable \in FocusOrders}
FocusIdle == focus_call = [method |-> "none"]

(***************************************************************************)
(* The collection file.                                                    *)
(***************************************************************************)
Missing == [exists |-> FALSE]

(***************************************************************************)
(* collections.py: Request, save_request and load_request.  A Python value *)
(* that goes through json is a str, a dict (its items in insertion order)  *)
(* or a list; the text of the file is kept as the tree of its JSON values, *)
(* each string in it being the characters json.dump writes between the     *)
(* quotes (the indentation between the values is left out).                *)
(***************************************************************************)
PyStr(s) == [t |-> "str", s |-> s]
PyDict(items) == [t |-> "dict", items |-> items]
PyList(items) == [t |-> "list", items |-> items]

JsonString(token) == [t |-> "string", token |-> token]
JsonObject(members) == [t |-> "object", members |-> members]
JsonArray(elements) == [t |-> "array", elements |-> elements]

HexDigits == <<"0", "1", "2", "3", "4", "5", "6", "7", "8", "9",
               "a", "b", "c", "d", "e", "f">>

\* The code point of a character that json writes as an escape.
ord(c) == CASE c = "\t" -> 9 [] c = "\n" -> 10 [] c = "\"" -> 34 [] c = "\\" -> 92
            [] c = "é" -> 233
chr(n) == CASE n = 9 -> "\t" [] n = 10 -> "\n" [] n = 34 -> "\"" [] n = 92 -> "\\"
            [] n = 233 -> "é"

\* The mutant writes every character as it is.
c_escape_as_is(c) == <<c>>

\* json.dump with ensure_ascii: what a character of a str is written as.
c_escape(c) ==
    CASE c = "\"" -> <<"\\", "\"">>
      [] c = "\\" -> <<"\\", "\\">>
      [] c = "\n" -> <<"\\", "n">>
      [] c = "\t" -> <<"\\", "t">>
      [] c = "é" -> <<"\\", "u", HexDigits[((ord(c) \div 4096) % 16) + 1],
                      HexDigits[((ord(c) \div 256) % 16) + 1],
                      HexDigits[((ord(c) \div 16) % 16) + 1],
                      HexDigits[(ord(c) % 16) + 1]>>
      [] OTHER -> <<c>>

RECURSIVE encode_str(_)
encode_str(s) == IF s = <<>> THEN <<>> ELSE c_escape(Head(s)) \o encode_str(Tail(s))

hex_value(c) == CHOOSE n \in 0..15 : HexDigits[n + 1] = c

\* json.load: the str a string of the file stands for.
RECURSIVE decode_str(_)
decode_str(token) ==
    IF token = <<>> THEN <<>>
    ELSE IF Head(token) # "\\" THEN <<Head(token)>> \o decode_str(Tail(token))
    ELSE IF token[2] = "u"
         THEN <<chr(4096 * hex_value(token[3]) + 256 * hex_value(token[4])
                      + 16 * hex_value(token[5]) + hex_value(token[6]))>>
                 \o decode_str(SubSeq(token, 7, Len(token)))
         ELSE <<CASE token[2] = "n" -> "\n" [] token[2] = "t" -> "\t"
                  [] OTHER -> token[2]>>
                 \o decode_str(SubSeq(token, 3, Len(token)))

\* json.dump(data, f, indent=2)
RECURSIVE json_dump(_)
json_dump(value) ==
    CASE value.t = "str" -> JsonString(encode_str(value.s))
      [] value.t = "dict" ->
            JsonObject([i \in 1..Len(value.items) |->
                          <<encode_str(value.items[i][1]), json_dump(value.items[i][2])>>])
      [] value.t = "list" ->
            JsonArray([i \in 1..Len(value.items) |-> json_dump(value.items[i])])

\* A dict filled member by member: a repeated name keeps its first place
\* and its last value.
RECURSIVE dict_of(_, _)
dict_of(members, d) ==
    IF members = <<>> THEN d
    ELSE dict_of(Tail(members), dict_set(d, Head(members)[1], Head(members)[2]))

\* json.load(f), for a file that holds JSON.
RECURSIVE json_load(_)
json_load(json) ==
    CASE json.t = "string" -> PyStr(decode_str(json.token))
      [] json.t = "object" ->
            PyDict(dict_of([i \in 1..Len(json.members) |->
                              <<decode_str(json.members[i][1]),
                                json_load(json.members[i][2])>>], <<>>))
      [] json.t = "array" ->
            PyList([i \in 1..Len(json.elements) |-> json_load(json.elements[i])])

\* dict.get(key, default)
get(d, key, default) ==
    IF \E i \in 1..Len(d.items) : d.items[i][1] = key
    THEN d.items[CHOOSE i \in 1..Len(d.items) : d.items[i][1] = key][2]
    ELSE default

\* The names of the members, as str.
Untitled == <<"U", "n", "t", "i", "t", "l", "e", "d", " ", "R", "e", "q", "u", "e", "s", "t">>
GET == <<"G", "E", "T">>

\* Request.__init__: a headers argument of None or {} becomes {}.
NoHeaders == [is_none |-> TRUE]
collections_Request(method, url, headers, body, name) ==
    [method |-> method, url |-> url,
     headers |-> IF headers = NoHeaders THEN <<>> ELSE headers,
     body |-> body, name |-> name]

to_dict(request) ==
    PyDict(<< <<<<"n", "a", "m", "e">>, PyStr(request.name)>>,
              <<<<"m", "e", "t", "h", "o", "d">>, PyStr(request.method)>>,
              <<<<"u", "r", "l">>, PyStr(request.url)>>,
              <<<<"h", "e", "a", "d", "e", "r", "s">>,
                PyDict([i \in 1..Len(request.headers) |->
                          <<request.headers[i][1], PyStr(request.headers[i][2])>>])>>,
              <<<<"b", "o", "d", "y">>, PyStr(request.body)>> >>)

from_dict(data) ==
    LET headers == get(data, <<"h", "e", "a", "d", "e", "r", "s">>, PyDict(<<>>))
    IN  collections_Request(
            get(data, <<"m", "e", "t", "h", "o", "d">>, PyStr(GET)).s,
            get(data, <<"u", "r", "l">>, PyStr(<<>>)).s,
            [i \in 1..Len(headers.items) |-> <<headers.items[i][1], headers.items[i][2].s>>],
            get(data, <<"b", "o", "d", "y">>, PyStr(<<>>)).s,
            get(data, <<"n", "a", "m", "e">>, PyStr(Untitled)).s)

\* The collection file: missing, holding something json.load rejects, or
\* holding JSON.
FileOf(json) == [exists |-> TRUE, decodes |-> TRUE, json |-> json]

\* save_request: the file it leaves.
save_request(request) ==
    FileOf(json_dump(PyDict(
        << <<<<"v", "e", "r", "s", "i", "o", "n">>, PyStr(<<"1", ".", "0">>)>>,
           <<<<"r", "e", "q", "u", "e", "s", "t", "s">>, PyList(<<to_dict(request)>>)>> >>)))

\* load_request: None, a Request, or the exception that leaves it.  The
\* except clause takes JSONDecodeError, KeyError and IOError; data.get on
\* JSON that is not an object raises AttributeError.
load_request(file) ==
    IF ~file.exists THEN [returns |-> "None"]
    ELSE IF ~file.decodes THEN [returns |-> "None"]
    ELSE LET data == json_load(file.json)
         IN  IF data.t # "dict" THEN [returns |-> "raise", cls |-> "AttributeError"]
             ELSE LET requests == get(data, <<"r", "e", "q", "u", "e", "s", "t", "s">>, PyList(<<>>))
                  IN  IF requests.items = <<>> THEN [returns |-> "None"]
                      ELSE IF requests.t = "dict" THEN [returns |-> "None"]
                      ELSE [returns |-> "Request", request |-> from_dict(requests.items[1])]

NoStoreCall == [op |-> "none", saved |-> [saved |-> FALSE], loaded |-> [returns |-> "none"]]

SaveRequest(request) ==
    /\ collection_file' = save_request(request)
    /\ store_call' = [op |-> "save", saved |-> [saved |-> TRUE, request |-> request],
                      loaded |-> [returns |-> "none"]]

LoadRequest ==
    /\ store_call.op # "load"
    /\ store_call' = [store_call EXCEPT !.op = "load",
                                        !.loaded = load_request(collection_file)]
    /\ UNCHANGED collection_file

\* The requests saved: strs with the characters json escapes, headers in
\* some order, a headers argument of None.
StoreRequests ==
    {collections_Request(method, url, headers, body, name) :
        method \in {GET, <<"p", "o", "s", "t">>, <<>>},
        url \in {<<>>, <<"h", "\\", "n", "é">>},
        headers \in {NoHeaders, <<>>,
                     << <<<<"B">>, <<"\"">>>>, <<<<"A", " ", "b">>, <<>>>> >>},
        body \in {<<>>, <<"{", "\n", "\t", "}">>},
        name \in {<<>>, Untitled, <<"a", "\"", "b">>}}

\* The files found: none, one that is not JSON, and files written by hand.
StoreFiles ==
    {Missing, [exists |-> TRUE, decodes |-> FALSE],
     FileOf(JsonArray(<<>>)),
     FileOf(JsonObject(<<>>)),
     FileOf(JsonObject(<< <<<<"r", "e", "q", "u", "e", "s", "t", "s">>, JsonArray(<<>>)>> >>)),
     FileOf(JsonObject(<< <<<<"r", "e", "q", "u", "e", "s", "t", "s">>,
                            JsonArray(<<JsonObject(<<>>)>>)>> >>)),
     FileOf(JsonObject(<< <<<<"r", "e", "q", "u", "e", "s", "t", "s">>,
        JsonArray(<<JsonObject(<< <<<<"u", "r", "l">>, JsonString(<<"h">>)>>,
           <<<<"h", "e", "a", "d", "e", "r", "s">>,
             JsonObject(<< <<<<>>, JsonString(<<"x">>)>>,
                           <<<<"A">>, JsonString(<<"v">>)>> >>)>> >>)>>)>> >>))}

StoreInit ==
    /\ collection_file \in StoreFiles
    /\ store_call = NoStoreCall
StoreIdle == collection_file = Missing /\ store_call = NoStoreCall

(***************************************************************************)
(* PorterApp.action_send_request.  A run of the handler is a frame: the    *)
(* locals of the handler and of its send_request call, and the times at    *)
(* which the handler was entered, called send_request and got its          *)
(* outcome.                                                                *)
(***************************************************************************)
NoRequest == [sent |-> FALSE]
NoOutcome == [kind |-> "none"]

\* The arguments of client.request (lines 72-78).
Request(method, url, headers, body) ==
    [sent |-> TRUE, method |-> upper(method), url |-> url, headers |-> headers,
     content |-> content_of(body), follow_redirects |-> TRUE]

\* The mutant starts the timer when the handler is entered.
start_time_at_handler_entry(handler_entry, call_entry) == handler_entry

\* time.time() at line 68, read when send_request is entered and not when
\* the handler is.
start_time_at(handler_entry, call_entry) == call_entry

\* The exception method.upper() raises when the method is not a str.
NoUpper == [kind |-> "raise", cls |-> "AttributeError",
            msg |-> "'NoSelection' object has no attribute 'upper'"]

\* Lines 207-210: the URL is invalid; the handler shows the message,
\* focuses the URL input and returns.
reject(url, error_msg, entry) ==
    /\ response_viewer' = display_error(error_msg)
    /\ focused' = UrlInput
    /\ IF focused = UrlInput THEN cursor' = cursor
       ELSE cursor' \in cursor_locations(UrlInput)
    /\ key_event' = key_event
    /\ handlers' = Append(handlers,
          [pc |-> "returned", url |-> url, t_entry |-> entry, t_call |-> entry,
           start_time |-> entry, timeout |-> 300, request |-> NoRequest,
           outcome |-> NoOutcome, t_outcome |-> entry, response |-> NotReturned,
           overdue |-> FALSE])

\* Lines 224-234, from the moment the try block of send_request ends: the
\* frame and the viewer the handler leaves.  An exception that leaves
\* send_request leaves the handler too, before it displays anything.
finish(frame, outcome, now, viewer) ==
    LET r == send_request_outcome(outcome, frame.start_time, now, frame.timeout)
        ended == [frame EXCEPT !.outcome = outcome, !.t_outcome = now]
    IN  IF r.raised
        THEN [frame |-> [ended EXCEPT !.pc = "faulted"], viewer |-> viewer]
        ELSE [frame |-> [ended EXCEPT !.pc = "displayed", !.response = r.value],
              viewer |-> display_response(r.value)]

\* The mutant takes the body field as it is, without strip().
dispatch_body_unstripped(method, url, entry, now, viewer, focus) ==
    LET headers == get_headers_from_ui
        stripped == body_text
        body == IF stripped # <<>> THEN SomeBody(stripped) ELSE NoBody
        loading == [viewer EXCEPT !.label = "Response - Loading..."]
        frame == [pc |-> "awaiting", url |-> url, t_entry |-> entry, t_call |-> now,
                  start_time |-> start_time_at(entry, now), timeout |-> 300,
                  request |-> IF method = BLANK THEN NoRequest
                              ELSE Request(method, url, headers, body),
                  outcome |-> NoOutcome, t_outcome |-> now, response |-> NotReturned,
           overdue |-> FALSE]
        done == finish(frame, NoUpper, now, loading)
    IN  /\ focused' = focus
        /\ UNCHANGED navVars
        /\ IF method = BLANK
           THEN /\ handlers' = Append(handlers, done.frame)
                /\ response_viewer' = done.viewer
           ELSE /\ handlers' = Append(handlers, frame)
                /\ response_viewer' = loading

\* Lines 212-231: the URL is valid; the handler gathers the headers and the
\* body, shows "Loading..." and calls send_request, which suspends it at
\* client.request.  method.upper() on a blank Select raises before anything
\* is awaited, and the handler goes on to display that failure at once.
dispatch(method, url, entry, now, viewer, focus) ==
    LET headers == get_headers_from_ui
        stripped == strip(body_text)
        body == IF stripped # <<>> THEN SomeBody(stripped) ELSE NoBody
        loading == [viewer EXCEPT !.label = "Response - Loading..."]
        frame == [pc |-> "awaiting", url |-> url, t_entry |-> entry, t_call |-> now,
                  start_time |-> start_time_at(entry, now), timeout |-> 300,
                  request |-> IF method = BLANK THEN NoRequest
                              ELSE Request(method, url, headers, body),
                  outcome |-> NoOutcome, t_outcome |-> now, response |-> NotReturned,
           overdue |-> FALSE]
        done == finish(frame, NoUpper, now, loading)
    IN  /\ focused' = focus
        /\ UNCHANGED navVars
        /\ IF method = BLANK
           THEN /\ handlers' = Append(handlers, done.frame)
                /\ response_viewer' = done.viewer
           ELSE /\ handlers' = Append(handlers, frame)
                /\ response_viewer' = loading

\* The mutant shows the validation message and goes on to send.
action_send_request_no_return(dv) ==
    LET url == strip(url_value)
        v == validate_url(url)
    IN  /\ clock' = clock + dv
        /\ dispatch(method_value, url, clock, clock + dv,
                    IF v.is_valid THEN response_viewer ELSE display_error(v.error_message),
                    IF v.is_valid THEN focused ELSE UrlInput)
        /\ UNCHANGED editorVars

\* action_send_request up to its return or its await; dv is the time the
\* handler takes to reach send_request.
action_send_request(dv) ==
    LET url == strip(url_value)
        v == validate_url(url)
    IN  /\ clock' = clock + dv
        /\ IF ~v.is_valid
           THEN reject(url, v.error_message, clock)
           ELSE dispatch(method_value, url, clock, clock + dv, response_viewer, focused)
        /\ UNCHANGED editorVars

\* ctrl+enter (BINDINGS): the send action runs.
CtrlEnter ==
    /\ handlers = <<>>
    /\ \E dv \in 0..MaxSyncDelay :
          /\ clock + dv <= MaxClock
          /\ action_send_request(dv)
    /\ UNCHANGED <<validateVars, statusVars, focusVars, storeVars, actionVars>>

\* client.request ends with a response or an exception; send_request
\* returns and handler h goes on to _display_response.
TransportReturns(h, outcome) ==
    /\ handlers[h].pc = "awaiting"
    /\ LET done == finish(handlers[h], outcome, clock, response_viewer)
       IN  /\ handlers' = [handlers EXCEPT ![h] = done.frame]
           /\ response_viewer' = done.viewer
    /\ UNCHANGED <<editorVars, focused, navVars, clock,
                   validateVars, statusVars, focusVars, storeVars, actionVars>>

\* The timeout has run out since handler h called send_request, and
\* client.request has not ended: AsyncClient(timeout=timeout) bounds each
\* wait of the transport (to connect, to read, to write, for a connection
\* of the pool), not the call as a whole.
DeadlinePasses(h) ==
    /\ handlers[h].pc = "awaiting"
    /\ ~handlers[h].overdue
    /\ handlers' = [handlers EXCEPT ![h].overdue = TRUE]
    /\ UNCHANGED <<editorVars, focused, navVars, response_viewer, clock,
                   validateVars, statusVars, focusVars, storeVars, actionVars>>

\* Time passes while a call is in flight (no other time is measured).
Tick ==
    /\ \E h \in 1..Len(handlers) : handlers[h].pc = "awaiting"
    /\ clock < MaxClock
    /\ clock' = clock + 1
    /\ UNCHANGED <<editorVars, focused, navVars, response_viewer, handlers,
                   validateVars, statusVars, focusVars, storeVars, actionVars>>

\* Response bodies: up to two runs, of lengths around the limit.
BodyRuns ==
    {[c |-> ch, n |-> len] :
        ch \in {"a", "\n"},
        len \in {1, max_size - 1, max_size, max_size + 1, max_size + BodyExtra}}
ResponseBodies ==
    {<<>>, JsonBody}
      \cup {<<r>> : r \in BodyRuns}
      \cup {<<p[1], p[2]>> : p \in {q \in BodyRuns \X BodyRuns : q[1].c # q[2].c}}

RaisedClasses ==
    {"ConnectTimeout", "ReadTimeout", "ConnectError", "ReadError",
     "UnsupportedProtocol", "InvalidURL"}

\* What client.request can end with.
TransportOutcomes ==
    {[kind |-> "response", status_code |-> code, headers |-> hs, text |-> text] :
        code \in {200, 418},
        hs \in {<<>>, <<<<"content-type", "text/plain">>, <<"x-a", "1">>>>},
        text \in ResponseBodies}
      \cup {[kind |-> "raise", cls |-> cls, msg |-> msg] :
              cls \in RaisedClasses, msg \in {"", "All connection attempts failed"}}

\* The contents of the editor when the send is triggered.
HttpA == HttpPrefix \o <<"a">>
SendUrls ==
    {<<>>, <<" ", "\t">>, HttpA, <<" ">> \o HttpsPrefix \o <<"a", "\n">>,
     HttpA \o <<" ", "b">>, <<"f", "t", "p", ":", "/", "/", "a">>}
SendRows ==
    { <<HeaderRow(1, <<>>, <<>>)>>,
      <<HeaderRow(1, <<"A", " ">>, <<" ", "v">>), HeaderRow(2, <<" ">>, <<"w">>)>>,
      <<HeaderRow(1, <<"A">>, <<"v">>), HeaderRow(2, <<"B">>, <<>>),
        HeaderRow(3, <<" ", "A">>, <<"w">>)>> }

AppInit ==
    /\ method_value = "GET"
    /\ url_value = <<>>
    /\ rows = <<HeaderRow(1, <<>>, <<>>)>>
    /\ body_text = <<>>
    /\ focused = MethodSelect
    /\ cursor = <<0, 0>>
    /\ key_event = NoKey
    /\ response_viewer = ResponseViewerInit
    /\ handlers = <<>>
    /\ clock = 0
    /\ ActionIdle

\* ctrl+enter again while earlier runs of the handler are still there:
\* action_send_request has no guard of its own, and a run suspended at its
\* await leaves the event loop free to start another.
CtrlEnterAgain ==
    /\ handlers # <<>>
    /\ Len(handlers) < MaxHandlers
    /\ \E dv \in 0..MaxSyncDelay :
          /\ clock + dv <= MaxClock
          /\ action_send_request(dv)
    /\ UNCHANGED <<validateVars, statusVars, focusVars, storeVars, actionVars>>

\* The editor and the transport outcomes when sends may overlap.
OverlapOutcomes ==
    {[kind |-> "response", status_code |-> 200, headers |-> <<>>, text |-> JsonBody],
     [kind |-> "response", status_code |-> 418, headers |-> <<>>, text |-> <<>>],
     [kind |-> "raise", cls |-> "ReadTimeout", msg |-> ""],
     [kind |-> "raise", cls |-> "ConnectError", msg |-> "All connection attempts failed"]}

OverlapInit ==
    /\ method_value \in {"GET", "POST"}
    /\ url_value \in {HttpA, <<"f", "t", "p", ":", "/", "/", "a">>}
    /\ rows = <<HeaderRow(1, <<>>, <<>>)>>
    /\ body_text = <<>>
    /\ focused = UrlInput
    /\ cursor = <<0, 0>>
    /\ key_event = NoKey
    /\ response_viewer = ResponseViewerInit
    /\ handlers = <<>>
    /\ clock = 0

SendInit ==
    /\ method_value \in {"GET", "POST", BLANK}
    /\ url_value \in SendUrls
    /\ rows \in SendRows
    /\ body_text \in {<<>>, <<" ", "\n">>, <<" ", "x", " ">>}
    /\ focused \in {MethodSelect, UrlInput}
    /\ cursor = <<0, 0>>
    /\ key_event = NoKey
    /\ response_viewer = ResponseViewerInit
    /\ handlers = <<>>
    /\ clock = 0

(***************************************************************************)
(* PorterApp.action_quit (ctrl+q).                                         *)
(***************************************************************************)
\* The ids of the widgets the compose methods yield (PorterApp.compose,
\* RequestEditor, HeadersEditor, BodyEditor, ResponseViewer).
ComposedIds ==
    {"main-container", "request-line", "method-select", "url-input", "send-button",
     "headers-container", "headers-buttons", "add-header-button",
     "remove-header-button", "body-text", "response-label", "response-tabs",
     "body-tab", "response-body", "headers-tab", "response-headers", "raw-tab",
     "response-raw"}

\* self.query_one("#id", ...): the widget of that id, or NoMatches raised.
query_one(id) ==
    IF id \in ComposedIds THEN [raised |-> FALSE, id |-> id]
    ELSE [raised |-> TRUE, cls |-> "NoMatches"]

\* _get_current_request: the queries in the order of lines 177-181; the
\* first one that raises leaves the method.  The value of #request-name
\* would be the name; no composed widget holds one.
_get_current_request ==
    LET queries == <<query_one("request-name"), query_one("method-select"),
                     query_one("url-input"), query_one("headers-container"),
                     query_one("body-text")>>
        failed == {i \in 1..Len(queries) : queries[i].raised}
        method == CASE method_value = "GET" -> GET
                    [] method_value = "POST" -> <<"P", "O", "S", "T">>
    IN  IF failed # {}
        THEN queries[CHOOSE i \in failed : \A j \in failed : i <= j]
        ELSE [raised |-> FALSE,
              request |-> collections_Request(method, url_value, get_headers_from_ui,
                                              body_text, <<>>)]

\* action_quit: _get_current_request, save_request, self.exit().  An
\* exception leaves the handler at the statement that raised it.
action_quit ==
    LET current_request == _get_current_request
    IN  IF current_request.raised
        THEN /\ action_call' = [op |-> "action_quit", raised |-> current_request.cls,
                                saved |-> FALSE, exit |-> FALSE]
             /\ UNCHANGED storeVars
        ELSE /\ SaveRequest(current_request.request)
             /\ action_call' = [op |-> "action_quit", raised |-> "none",
                                saved |-> TRUE, exit |-> TRUE]

\* ctrl+q (BINDINGS): the quit action runs, once.
CtrlQ ==
    /\ action_call.op # "action_quit"
    /\ action_quit
    /\ UNCHANGED <<editorVars, focused, navVars, response_viewer, handlers, clock,
                   validateVars, statusVars, focusVars>>

(***************************************************************************)
(* Specifications.                                                         *)
(***************************************************************************)
InitValidate == ValidateInit /\ StatusIdle /\ AppInit /\ FocusIdle /\ StoreIdle
NextValidate == ValidateCall /\ UNCHANGED <<statusVars, appVars, focusVars, storeVars>>
SpecValidate == InitValidate /\ [][NextValidate]_vars

InitStatus == StatusInit /\ ValidateIdle /\ AppInit /\ FocusIdle /\ StoreIdle
NextStatus == StatusTextRead /\ UNCHANGED <<validateVars, appVars, focusVars, storeVars>>
SpecStatus == InitStatus /\ [][NextStatus]_vars

\* One run of the send handler, from any contents of the editor.
InitSend == SendInit /\ ValidateIdle /\ StatusIdle /\ FocusIdle /\ StoreIdle /\ ActionIdle
NextSend ==
    \/ CtrlEnter
    \/ \E h \in 1..Len(handlers), outcome \in TransportOutcomes :
          TransportReturns(h, outcome)
    \/ Tick
SpecSend == InitSend /\ [][NextSend]_vars

\* Sends that may overlap: ctrl+enter while earlier calls are pending.
InitOverlap == OverlapInit /\ ValidateIdle /\ StatusIdle /\ FocusIdle /\ StoreIdle /\ ActionIdle
NextOverlap ==
    \/ CtrlEnter
    \/ CtrlEnterAgain
    \/ \E h \in 1..Len(handlers), outcome \in OverlapOutcomes :
          TransportReturns(h, outcome)
    \/ Tick
SpecOverlap == InitOverlap /\ [][NextOverlap]_vars

\* save_request and load_request, from any file found.
InitStore == StoreInit /\ ValidateIdle /\ StatusIdle /\ AppInit /\ FocusIdle
NextStore ==
    \/ \E request \in StoreRequests :
          SaveRequest(request) /\ UNCHANGED <<validateVars, statusVars, appVars, focusVars>>
    \/ LoadRequest /\ UNCHANGED <<validateVars, statusVars, appVars, focusVars>>
SpecStore == InitStore /\ [][NextStore]_vars

\* One send whose call to client.request ends, sooner or later.
TransportEnds ==
    \E h \in 1..Len(handlers), outcome \in OverlapOutcomes : TransportReturns(h, outcome)
NextDeadline ==
    \/ CtrlEnter
    \/ TransportEnds
    \/ Tick
    \/ \E h \in 1..Len(handlers) : DeadlinePasses(h)
SpecDeadline == InitOverlap /\ [][NextDeadline]_vars /\ WF_vars(TransportEnds)

\* The Send button and ctrl+enter, with a call to client.request that ends.
InitButton ==
    /\ method_value \in {"GET", "POST"}
    /\ url_value \in {<<>>, HttpA, <<"f", "t", "p", ":", "/", "/", "a">>}
    /\ rows = <<HeaderRow(1, <<>>, <<>>)>>
    /\ body_text = <<>>
    /\ focused = SendButton
    /\ cursor = <<0, 0>>
    /\ key_event = NoKey
    /\ response_viewer = ResponseViewerInit
    /\ handlers = <<>>
    /\ clock = 0
    /\ ValidateIdle /\ StatusIdle /\ FocusIdle /\ StoreIdle /\ ActionIdle
NextButton ==
    \/ on_button_pressed(SendButton)
    \/ CtrlEnter
    \/ TransportEnds
    \/ Tick
SpecButton == InitButton /\ [][NextButton]_vars /\ WF_vars(TransportEnds)

\* Arrow keys and button presses, from any contents of the editor.
InitNav == NavInit /\ ValidateIdle /\ StatusIdle /\ FocusIdle /\ StoreIdle /\ ActionIdle
NextNav ==
    \/ \E key \in {"up", "down", "left", "right"} : Key(key)
    \/ \E button \in {SendButton, AddHeaderButton, RemoveHeaderButton} : on_button_pressed(button)
SpecNav == InitNav /\ [][NextNav]_vars

\* ctrl+q after any keys and button presses, over a collection file that
\* is missing or was left by an earlier run.
InitQuit ==
    /\ NavInit
    /\ collection_file \in {Missing, FileOf(JsonObject(<<>>))}
    /\ store_call = NoStoreCall
    /\ ValidateIdle /\ StatusIdle /\ FocusIdle /\ ActionIdle
NextQuit ==
    \/ /\ action_call.op # "action_quit"
       /\ \E key \in {"up", "down", "left", "right"} : Key(key)
    \/ /\ action_call.op # "action_quit"
       /\ \E button \in {AddHeaderButton, RemoveHeaderButton} : on_button_pressed(button)
    \/ CtrlQ
SpecQuit == InitQuit /\ [][NextQuit]_vars

\* The focus methods, on every widget and list.
InitFocus == FocusInit /\ ValidateIdle /\ StatusIdle /\ AppInit /\ StoreIdle
NextFocus ==
    \/ FocusPrevious /\ UNCHANGED <<validateVars, statusVars, appVars, storeVars>>
    \/ FocusNext /\ UNCHANGED <<validateVars, statusVars, appVars, storeVars>>
SpecFocus == InitFocus /\ [][NextFocus]_vars

(***************************************************************************)
(* C1: validate_url applies three rules in order and returns the first     *)
(* failure: an empty or all-whitespace input fails with "URL cannot be     *)
(* empty"; otherwise a trimmed URL starting with neither http:// nor       *)
(* https:// fails with the scheme message; otherwise a trimmed URL         *)
(* containing a space fails with the spaces message; every other input     *)
(* succeeds with no message.  The trimmed URL is stated here without       *)
(* strip(): it is the part of the input between its first and its last     *)
(* non-whitespace character.                                               *)
(***************************************************************************)
AllWhitespace(s) == \A i \in 1..Len(s) : s[i] \in Whitespace

Trimmed(s) ==
    LET solid == {i \in 1..Len(s) : s[i] \notin Whitespace}
        first == CHOOSE i \in solid : \A j \in solid : i <= j
        last == CHOOSE i \in solid : \A j \in solid : j <= i
    IN  IF solid = {} THEN <<>> ELSE [k \in 1..(last - first + 1) |-> s[first + k - 1]]

HasScheme(t) ==
    \/ /\ Len(t) >= 7
       /\ \A i \in 1..7 : t[i] = HttpPrefix[i]
    \/ /\ Len(t) >= 8
       /\ \A i \in 1..8 : t[i] = HttpsPrefix[i]

C1_ValidateRulesInOrder ==
    v_result.returned =>
        LET t == Trimmed(v_url)
        IN  /\ AllWhitespace(v_url) =>
                /\ ~v_result.is_valid
                /\ v_result.error_message = "URL cannot be empty"
            /\ (~AllWhitespace(v_url) /\ ~HasScheme(t)) =>
                /\ ~v_result.is_valid
                /\ v_result.error_message = "URL must start with http:// or https://"
            /\ (~AllWhitespace(v_url) /\ HasScheme(t) /\ (\E i \in 1..Len(t) : t[i] = " ")) =>
                /\ ~v_result.is_valid
                /\ v_result.error_message = "URL cannot contain spaces"
            /\ (~AllWhitespace(v_url) /\ HasScheme(t) /\ ~(\E i \in 1..Len(t) : t[i] = " ")) =>
                /\ v_result.is_valid
                /\ v_result.error_message = None

\* A URL with no scheme and an inner space was rejected: rule 2 came first.
C1_Witness ==
    /\ v_result.returned
    /\ ~AllWhitespace(v_url)
    /\ ~HasScheme(Trimmed(v_url))
    /\ \E i \in 1..Len(Trimmed(v_url)) : Trimmed(v_url)[i] = " "
    /\ v_result.error_message = MsgPrefix

(***************************************************************************)
(* Statements about one run of the send handler.                           *)
(***************************************************************************)
Frames == {handlers[h] : h \in 1..Len(handlers)}

\* The URL passes the three rules (stated without validate_url).
UrlPasses(u) ==
    /\ ~AllWhitespace(u)
    /\ HasScheme(Trimmed(u))
    /\ \A i \in 1..Len(Trimmed(u)) : Trimmed(u)[i] # " "

\* The message of the first rule the URL fails.
UrlMessage(u) ==
    IF AllWhitespace(u) THEN "URL cannot be empty"
    ELSE IF ~HasScheme(Trimmed(u)) THEN "URL must start with http:// or https://"
    ELSE "URL cannot contain spaces"

(***************************************************************************)
(* C2: when a send is triggered and the URL field fails validation,        *)
(* send_request is not invoked for that send: the handler shows the        *)
(* validation message and returns, with no request and no outcome; and no  *)
(* request is ever sent for a URL that fails validation.                   *)
(***************************************************************************)
C2_Rejected(f) ==
    /\ f.pc = "returned"
    /\ f.request = NoRequest
    /\ f.outcome = NoOutcome
    /\ f.response = NotReturned

C2_NoDispatchOnInvalidUrl ==
    /\ [](\A f \in Frames : ~UrlPasses(f.url) => C2_Rejected(f))
    /\ [][(Len(handlers') = Len(handlers) + 1 /\ ~UrlPasses(url_value)) =>
            /\ C2_Rejected(handlers'[Len(handlers')])
            /\ response_viewer'.label = "Response - Error"
            /\ response_viewer'.body = AreaText(UrlMessage(url_value), <<>>)
            /\ response_viewer'.headers = AreaText(UrlMessage(url_value), <<>>)
            /\ response_viewer'.raw = AreaText(UrlMessage(url_value), <<>>)]_vars

\* A send was triggered on a URL with no scheme and was turned down.
C2_Witness ==
    \E f \in Frames :
        /\ ~AllWhitespace(f.url)
        /\ ~HasScheme(f.url)
        /\ f.pc = "returned"
        /\ response_viewer.body.head = MsgPrefix

(***************************************************************************)
(* C3: send_request returns a response body of at most 5,242,880 units     *)
(* unmodified, and of a longer one exactly the first 5,242,880 units       *)
(* followed by "\n\n[Response truncated at 5MB]".                          *)
(***************************************************************************)
\* The i-th character (from 1) of a text at least i long.
RECURSIVE C3_CharAt(_, _)
C3_CharAt(t, i) == IF i <= Head(t).n THEN Head(t).c ELSE C3_CharAt(Tail(t), i - Head(t).n)

C3_Marker ==
    <<"\n", "\n", "[", "R", "e", "s", "p", "o", "n", "s", "e", " ",
      "t", "r", "u", "n", "c", "a", "t", "e", "d", " ", "a", "t", " ",
      "5", "M", "B", "]">>

C3_BodyTruncatedPastLimit ==
    \A f \in Frames :
        (f.pc = "displayed" /\ f.outcome.kind = "response") =>
            LET sent == f.outcome.text
                got == f.response.body
            IN  /\ text_len(sent) <= 5242880 => got = sent
                /\ text_len(sent) > 5242880 =>
                    /\ text_len(got) = 5242880 + Len(C3_Marker)
                    /\ text_prefix(got, 5242880) = text_prefix(sent, 5242880)
                    /\ text_len(text_prefix(got, 5242880)) = 5242880
                    /\ \A i \in 1..Len(C3_Marker) :
                          C3_CharAt(got, 5242880 + i) = C3_Marker[i]

\* A body one unit past the limit was cut.
C3_Witness ==
    \E f \in Frames :
        /\ f.pc = "displayed"
        /\ f.outcome.kind = "response"
        /\ text_len(f.outcome.text) = 5242881
        /\ text_len(f.response.body) = 5242909

C6_TimeoutClasses == {"ConnectTimeout", "ReadTimeout"}
C6_ConnectClasses == {"ConnectError"}

C6_Causes == {o.msg : o \in {x \in TransportOutcomes : x.kind = "raise"}} \cup {NoUpper.msg}

C6_Forms ==
    << {"Request timeout after 30.0s"},
       {"Connection error: " \o cause : cause \in C6_Causes},
       {"Error: " \o cause : cause \in C6_Causes} >>

C7_Shown(f, viewer) ==
    IF f.outcome.kind = "response"
    THEN viewer.label = "Response - " \o status_text(f.response.status_code)
                            \o " (" \o ToString(f.response.duration_ms) \o "ms)"
    ELSE /\ viewer.label = "Response - Error (" \o ToString(f.response.duration_ms) \o "ms)"
         /\ viewer.body.head = f.response.error

C7_SendRequestAlwaysReturns ==
    /\ [](\A f \in Frames :
            /\ f.pc \in {"returned", "awaiting", "displayed"}
            /\ f.outcome # NoOutcome =>
                  /\ f.pc = "displayed"
                  /\ DOMAIN f.response =
                        {"status_code", "headers", "body", "duration_ms", "error"})
    /\ [][\A h \in 1..Len(handlers') :
            (/\ handlers'[h].outcome # NoOutcome
             /\ (h > Len(handlers) \/ handlers[h].outcome = NoOutcome))
               => C7_Shown(handlers'[h], response_viewer')]_vars

\* An exception that is none of httpx's was caught and displayed.
C7_Witness ==
    \E f \in Frames :
        /\ f.outcome.kind = "raise"
        /\ f.outcome.cls \in {"InvalidURL", "AttributeError"}
        /\ f.pc = "displayed"
        /\ response_viewer.body.head = f.response.error

(***************************************************************************)
(* C8: every result of send_request, a success or a failure, has           *)
(* duration_ms set to a non-negative integer: the whole milliseconds       *)
(* elapsed between the entry of send_request, after validation has         *)
(* passed, and the moment the try block ended; the time the handler        *)
(* spent before the call is not in it.                                     *)
(***************************************************************************)
C8_DurationFromDispatchStart ==
    \A f \in Frames :
        f.pc = "displayed" =>
            LET ms == f.response.duration_ms
                elapsed == f.t_outcome - f.t_call
            IN  /\ ms \in Nat
                /\ ms * TicksPerMs <= elapsed
                /\ elapsed < (ms + 1) * TicksPerMs

\* The handler took time to reach send_request, and counting that time
\* would have given another duration.
C8_Witness ==
    \E f \in Frames :
        /\ f.pc = "displayed"
        /\ f.t_entry < f.t_call
        /\ f.response.duration_ms >= 1
        /\ f.response.duration_ms # (f.t_outcome - f.t_entry) \div TicksPerMs


(***************************************************************************)
(* The navigation order and the three things a key can come to, stated     *)
(* apart from the handlers: the order is the select, the URL field, the    *)
(* Send button, each mounted row's name and value fields, the Add Header   *)
(* and Remove Last buttons, and the body field.                            *)
(***************************************************************************)
RECURSIVE Nav_RowFields(_, _)
Nav_RowFields(i, n) ==
    IF i > n THEN <<>>
    ELSE <<[w |-> "header-key", row |-> i], [w |-> "header-value", row |-> i]>>
            \o Nav_RowFields(i + 1, n)

Nav_Order(n) ==
    <<[w |-> "method-select", row |-> 0], [w |-> "url-input", row |-> 0],
      [w |-> "send-button", row |-> 0]>>
      \o Nav_RowFields(1, n)
      \o <<[w |-> "add-header-button", row |-> 0],
           [w |-> "remove-header-button", row |-> 0], [w |-> "body-text", row |-> 0]>>

Nav_Place(e) == CHOOSE i \in 1..Len(Nav_Order(e.mounted)) : Nav_Order(e.mounted)[i] = e.widget
Nav_Previous(e) ==
    IF Nav_Place(e) > 1 THEN Nav_Order(e.mounted)[Nav_Place(e) - 1] ELSE e.widget
Nav_Next(e) ==
    IF Nav_Place(e) < Len(Nav_Order(e.mounted))
    THEN Nav_Order(e.mounted)[Nav_Place(e) + 1] ELSE e.widget

Nav_MovePrevious(e) ==
    e.prevent_default /\ e.call = "_focus_previous" /\ e.focused = Nav_Previous(e)
Nav_MoveNext(e) ==
    e.prevent_default /\ e.call = "_focus_next" /\ e.focused = Nav_Next(e)
Nav_NoOp(e) == ~e.prevent_default /\ e.call = "none" /\ e.focused = e.widget
Nav_NotTaken(e) == ~e.prevent_default /\ e.call = "none"

Nav_SingleLine(e) == e.widget.w \in {"url-input", "header-key", "header-value"}
Nav_MultiLine(e) == e.widget.w = "body-text"
Nav_Button(e) ==
    e.widget.w \in {"send-button", "add-header-button", "remove-header-button"}
Nav_Select(e) == e.widget.w = "method-select"

(***************************************************************************)
(* C9, as stated: Up on any navigable field (select, single-line text,     *)
(* multi-line text, button) always requests a focus move to the previous   *)
(* element of the navigation order, Down on any navigable field always     *)
(* requests a move to the next element, and Left/Right on a button always  *)
(* request a move to the previous/next element, whatever the cursor        *)
(* position.  The multi-line field and the select refute it.               *)
(***************************************************************************)
C9_UpDownAlwaysMove ==
    key_event.key # "none" =>
        /\ key_event.key = "up" => Nav_MovePrevious(key_event)
        /\ key_event.key = "down" => Nav_MoveNext(key_event)
        /\ Nav_Button(key_event) /\ key_event.key = "left" => Nav_MovePrevious(key_event)
        /\ Nav_Button(key_event) /\ key_event.key = "right" => Nav_MoveNext(key_event)

(***************************************************************************)
(* C9, amended: Up on a single-line text field or a button always requests *)
(* a focus move to the previous element of the navigation order and Down   *)
(* a move to the next element, whatever the cursor position, and           *)
(* Left/Right on a button always request a move to the previous/next       *)
(* element (the focus stays where no such element exists).  On the         *)
(* multi-line text field Up requests the move to the previous element only *)
(* if the cursor is on the first line, and is otherwise left to the field; *)
(* Down is always left to the field.  On the select no handler of the      *)
(* program takes Up or Down: no move is requested.                         *)
(***************************************************************************)
C9_UpDownMoveByFieldKind ==
    key_event.key # "none" =>
        /\ (Nav_SingleLine(key_event) \/ Nav_Button(key_event)) =>
              /\ key_event.key = "up" => Nav_MovePrevious(key_event)
              /\ key_event.key = "down" => Nav_MoveNext(key_event)
        /\ Nav_Button(key_event) =>
              /\ key_event.key = "left" => Nav_MovePrevious(key_event)
              /\ key_event.key = "right" => Nav_MoveNext(key_event)
        /\ Nav_MultiLine(key_event) =>
              /\ key_event.key = "up" =>
                    IF key_event.cursor[1] = 0 THEN Nav_MovePrevious(key_event)
                    ELSE Nav_NoOp(key_event)
              /\ key_event.key = "down" => Nav_NoOp(key_event)
        /\ Nav_Select(key_event) =>
              (key_event.key \in {"up", "down"} => Nav_NotTaken(key_event))

\* Up arrived at the body field with the cursor below the first line, and
\* the focus stayed on the body field.
C9_Witness ==
    /\ key_event.key = "up"
    /\ key_event.widget.w = "body-text"
    /\ key_event.cursor[1] > 0
    /\ key_event.call = "none"
    /\ focused.w = "body-text"

(***************************************************************************)
(* C10: Left on a single-line or multi-line text field moves the focus to  *)
(* the previous element of the navigation order only if the cursor is at   *)
(* the very start of the content (column 0, and for the multi-line field   *)
(* also line 0), and there it does move; at every other cursor position    *)
(* the result is NoOp: the handler neither prevents the default nor        *)
(* requests a move, and the focus does not change.                         *)
(***************************************************************************)
C10_LeftMovesAtStartOnly ==
    (key_event.key = "left" /\ (Nav_SingleLine(key_event) \/ Nav_MultiLine(key_event))) =>
        LET at_start == IF Nav_SingleLine(key_event) THEN key_event.cursor[2] = 0
                        ELSE key_event.cursor[1] = 0 /\ key_event.cursor[2] = 0
        IN  /\ key_event.focused # key_event.widget => at_start
            /\ at_start => Nav_MovePrevious(key_event)
            /\ ~at_start => Nav_NoOp(key_event)

\* Left arrived at a header name of five characters with the cursor at
\* position 3, and the focus stayed on it.
C10_Witness ==
    /\ key_event.key = "left"
    /\ key_event.widget = [w |-> "header-key", row |-> 1]
    /\ Len(key_event.value) = 5
    /\ key_event.cursor = <<0, 3>>
    /\ ~key_event.prevent_default
    /\ focused = [w |-> "header-key", row |-> 1]

(***************************************************************************)
(* C11: Right on a single-line text field moves the focus to the next      *)
(* element only if the cursor is at the end of the content (cursor         *)
(* position equal to the content's length), and there it does move; at     *)
(* every other position the result is NoOp.  On the multi-line text field  *)
(* Right and Down never move the focus, whatever the cursor position, so   *)
(* an arrow key takes the focus off the multi-line field only towards the  *)
(* previous element.                                                       *)
(***************************************************************************)
C11_RightMovesAtEndOnly ==
    key_event.key # "none" =>
        /\ (key_event.key = "right" /\ Nav_SingleLine(key_event)) =>
              LET at_end == key_event.cursor[2] = Len(key_event.value)
              IN  /\ key_event.focused # key_event.widget => at_end
                  /\ at_end => Nav_MoveNext(key_event)
                  /\ ~at_end => Nav_NoOp(key_event)
        /\ Nav_MultiLine(key_event) =>
              /\ key_event.key \in {"right", "down"} => Nav_NoOp(key_event)
              /\ key_event.focused # key_event.widget =>
                    /\ key_event.key \in {"up", "left"}
                    /\ key_event.focused = Nav_Previous(key_event)

\* Right arrived at a header name of five characters with the cursor after
\* the last of them, and the focus went on to the header's value.
C11_Witness ==
    /\ key_event.key = "right"
    /\ key_event.widget = [w |-> "header-key", row |-> 1]
    /\ Len(key_event.value) = 5
    /\ key_event.cursor = <<0, 5>>
    /\ focused = [w |-> "header-value", row |-> 1]

(***************************************************************************)
(* C12: when a focus move is requested, the focus goes to exactly the      *)
(* element at index - 1 (previous) or index + 1 (next) of the current      *)
(* navigation order; if the current field is first in the order a          *)
(* previous request yields Stay, and if it is last a next request yields   *)
(* Stay: the focus is unchanged, and there is no wrap-around.              *)
(***************************************************************************)
C12_MovesToNeighbourOrStays ==
    focus_call.method # "none" =>
        \A i \in 1..Len(focus_call.focusable) :
            focus_call.focusable[i] = focus_call.self =>
                /\ focus_call.method = "_focus_previous" =>
                      focus_call.focused =
                          IF i = 1 THEN focus_call.self ELSE focus_call.focusable[i - 1]
                /\ focus_call.method = "_focus_next" =>
                      focus_call.focused =
                          IF i = Len(focus_call.focusable) THEN focus_call.self
                          ELSE focus_call.focusable[i + 1]

\* A previous request came from the URL field, first of the order URL
\* field, header name, header value, Send button, and the focus stayed.
C12_Witness ==
    /\ focus_call.method = "_focus_previous"
    /\ focus_call.self = [w |-> "url-input", row |-> 0]
    /\ focus_call.focusable =
          <<[w |-> "url-input", row |-> 0], [w |-> "header-key", row |-> 1],
            [w |-> "header-value", row |-> 1], [w |-> "send-button", row |-> 0]>>
    /\ focus_call.focused = [w |-> "url-input", row |-> 0]

(***************************************************************************)
(* C19: if the field that receives a directional key is absent from the    *)
(* freshly computed navigation order, the result is Stay: the focus does   *)
(* not change and no fault is raised.                                      *)
(***************************************************************************)
C19_AbsentFieldStays ==
    (/\ focus_call.method # "none"
     /\ \A i \in 1..Len(focus_call.focusable) : focus_call.focusable[i] # focus_call.self)
        => /\ focus_call.focused = focus_call.self
           /\ focus_call.raised = "none"

\* A next request came from a header name that the order, which is not
\* empty, does not hold.
C19_Witness ==
    /\ focus_call.method = "_focus_next"
    /\ focus_call.self = [w |-> "header-key", row |-> 1]
    /\ focus_call.focusable =
          <<[w |-> "method-select", row |-> 0], [w |-> "url-input", row |-> 0],
            [w |-> "send-button", row |-> 0]>>
    /\ focus_call.focused = [w |-> "header-key", row |-> 1]
    /\ focus_call.raised = "none"

(***************************************************************************)
(* C13: after any sequence of add-header-row and remove-last-header-row    *)
(* operations interleaved with navigation key events, the navigation order *)
(* a key event uses is the depth-first order of the navigable fields       *)
(* mounted at that moment: it holds no removed field and omits no mounted  *)
(* one, being computed anew on each event.                                 *)
(***************************************************************************)
C13_OrderIsCurrentMountOrder ==
    (key_event.key # "none" /\ key_event.call # "none") =>
        /\ key_event.order = Nav_Order(key_event.mounted)
        /\ key_event.mounted = Len(rows) => key_event.order = Nav_Order(Len(rows))

\* A key used the order of three mounted rows, one more than any editor
\* starts with: twelve elements, the third row's fields among them.
C13_Witness ==
    /\ key_event.key # "none"
    /\ key_event.call # "none"
    /\ key_event.mounted = 3
    /\ Len(key_event.order) = 12
    /\ key_event.order[8] = [w |-> "header-key", row |-> 3]

C15_Ms(f) == ToString(f.response.duration_ms) \o "ms"
C15_RawOfFailure(f) == "Error: " \o f.response.error \o "\nDuration: " \o C15_Ms(f)

C15_AllViewsShowFailure ==
    \A f \in Frames :
        /\ f.pc = "returned" =>
              /\ response_viewer.label = "Response - Error"
              /\ response_viewer.body = [head |-> UrlMessage(f.url), tail |-> <<>>]
              /\ response_viewer.headers = [head |-> UrlMessage(f.url), tail |-> <<>>]
              /\ response_viewer.raw = [head |-> UrlMessage(f.url), tail |-> <<>>]
        /\ (f.pc = "displayed" /\ f.outcome.kind = "raise") =>
              /\ response_viewer.label \in
                    {"Response - Error", "Response - Error (" \o C15_Ms(f) \o ")"}
              /\ response_viewer.body = [head |-> f.response.error, tail |-> <<>>]
              /\ response_viewer.headers = [head |-> f.response.error, tail |-> <<>>]
              /\ response_viewer.raw.head \in {f.response.error, C15_RawOfFailure(f)}

(***************************************************************************)
(* C15, amended: a validation failure is rendered with the status line     *)
(* "Response - Error" and the validation message in all three views.  A    *)
(* dispatch Failure is rendered with the status line                       *)
(* "Response - Error ({durationMs}ms)", which has no status code, the      *)
(* failure message in the body view, an empty headers view, and            *)
(* "Error: {message}" above "Duration: {durationMs}ms" in the raw view.    *)
(***************************************************************************)
C15_FailureViews ==
    \A f \in Frames :
        /\ f.pc = "returned" =>
              /\ response_viewer.label = "Response - Error"
              /\ response_viewer.body = [head |-> UrlMessage(f.url), tail |-> <<>>]
              /\ response_viewer.headers = [head |-> UrlMessage(f.url), tail |-> <<>>]
              /\ response_viewer.raw = [head |-> UrlMessage(f.url), tail |-> <<>>]
        /\ (f.pc = "displayed" /\ f.outcome.kind = "raise") =>
              /\ response_viewer.label = "Response - Error (" \o C15_Ms(f) \o ")"
              /\ response_viewer.body = [head |-> f.response.error, tail |-> <<>>]
              /\ response_viewer.headers = [head |-> "", tail |-> <<>>]
              /\ response_viewer.raw = [head |-> C15_RawOfFailure(f), tail |-> <<>>]

\* A connection failure that took a millisecond or more is on display: its
\* message in the body view, nothing in the headers view.
C15_Witness ==
    \E f \in Frames :
        /\ f.pc = "displayed"
        /\ f.outcome.kind = "raise"
        /\ f.outcome.cls = "ConnectError"
        /\ f.response.duration_ms >= 1
        /\ response_viewer.body.head = f.response.error
        /\ response_viewer.headers.head = ""

(***************************************************************************)
(* C18: an empty or whitespace-only body is treated as absent: for every   *)
(* content of the body field that is nothing but whitespace, or nothing,   *)
(* the dispatched request carries no body at all, and for every other      *)
(* content the body is sent (the content without the whitespace around     *)
(* it).                                                                    *)
(***************************************************************************)
C18_BlankBodyIsAbsent ==
    \A f \in Frames :
        f.request # NoRequest =>
            IF AllWhitespace(body_text)
            THEN f.request.content.is_none
            ELSE /\ ~f.request.content.is_none
                 /\ f.request.content.bytes = Trimmed(body_text)

\* A request went out with no body from a body field holding a space and
\* a newline.
C18_Witness ==
    \E f \in Frames :
        /\ f.request # NoRequest
        /\ body_text = <<" ", "\n">>
        /\ f.request.content.is_none
        /\ f.outcome # NoOutcome

(***************************************************************************)
(* C16: a request round-trips through persistence: for every request,      *)
(* load_request performed after save_request on the same collection        *)
(* returns a request equal to the saved one in method, url, headers, body  *)
(* and name.                                                               *)
(***************************************************************************)
C16_LoadReturnsWhatWasSaved ==
    (store_call.op = "load" /\ store_call.saved.saved) =>
        /\ store_call.loaded.returns = "Request"
        /\ store_call.loaded.request.method = store_call.saved.request.method
        /\ store_call.loaded.request.url = store_call.saved.request.url
        /\ store_call.loaded.request.headers = store_call.saved.request.headers
        /\ store_call.loaded.request.body = store_call.saved.request.body
        /\ store_call.loaded.request.name = store_call.saved.request.name

\* A request whose strs hold a backslash, a quote, a tab, a newline and a
\* letter outside ASCII was saved over a file that was not JSON, and loaded.
C16_Witness ==
    /\ store_call.op = "load"
    /\ store_call.saved.saved
    /\ store_call.saved.request.url = <<"h", "\\", "n", "é">>
    /\ store_call.saved.request.name = <<"a", "\"", "b">>
    /\ store_call.saved.request.body = <<"{", "\n", "\t", "}">>
    /\ Len(store_call.saved.request.headers) = 2
    /\ store_call.loaded.returns = "Request"
    /\ store_call.loaded.request.url = <<"h", "\\", "n", "é">>

(***************************************************************************)
(* C17, as stated: no request's headers mapping ever contains an           *)
(* empty-string key: the headers extracted from the header rows omit every *)
(* row whose key is empty or whitespace-only, and this also holds for a    *)
(* request obtained from load_request.  A collection file whose headers    *)
(* object has an empty name refutes the last part.                         *)
(***************************************************************************)
C17_NoEmptyHeaderKey ==
    /\ \A i \in 1..Len(get_headers_from_ui) : get_headers_from_ui[i][1] # <<>>
    /\ store_call.loaded.returns = "Request" =>
          \A i \in 1..Len(store_call.loaded.request.headers) :
              store_call.loaded.request.headers[i][1] # <<>>

(***************************************************************************)
(* C20, as stated: every dispatched request eventually resolves: once a    *)
(* send passes validation and the label shows "Response - Loading...",     *)
(* the handler eventually receives a Success or a Failure, a timeout       *)
(* Failure at the latest when the deadline expires, and the Loading label  *)
(* is replaced by a status or Error line.  A call that is still pending    *)
(* when the timeout has run out refutes the deadline.                      *)
(***************************************************************************)
C20_ResolvesByDeadline ==
    /\ \A h \in 1..MaxHandlers :
          (h <= Len(handlers) /\ handlers[h].pc = "awaiting")
             ~> (/\ h <= Len(handlers)
                 /\ handlers[h].pc = "displayed"
                 /\ response_viewer.label # "Response - Loading...")
    /\ [](\A f \in Frames :
            (f.pc = "awaiting" /\ response_viewer.label = "Response - Loading...")
               => ~f.overdue)

C22_SendButtonSends ==
    /\ [][on_button_pressed(SendButton) =>
             /\ \E dv \in 0..MaxSyncDelay : action_send_request(dv)
             /\ IF validate_url(strip(url_value)).is_valid
                THEN /\ Len(handlers') = Len(handlers) + 1
                     /\ handlers'[Len(handlers')].request # NoRequest
                ELSE response_viewer'
                        = display_error(validate_url(strip(url_value)).error_message)]_vars
    /\ (/\ action_call = [op |-> "on_button_pressed", button |-> "send-button"]
        /\ validate_url(strip(url_value)).is_valid)
          ~> (response_viewer.label \notin {"Response", "Response - Loading..."})

(***************************************************************************)
(* C21, as stated: action_quit saves the current request, built from the   *)
(* current values of the name, method, URL, header and body fields, via    *)
(* save_request and then exits the application, in every reachable UI      *)
(* state; the save always happens before the exit and the exit always      *)
(* happens.  A run of action_quit that leaves the collection file as it    *)
(* was, or that does not reach self.exit(), refutes it.                    *)
(***************************************************************************)
C21_QuitSavesThenExits ==
    [][CtrlQ =>
         /\ action_call'.saved
         /\ action_call'.exit
         /\ load_request(collection_file').returns = "Request"
         /\ load_request(collection_file').request.url = url_value
         /\ load_request(collection_file').request.body = body_text
         /\ load_request(collection_file').request.headers = get_headers_from_ui]_vars

(***************************************************************************)
(* C5: status_text is "<code> <phrase>" for the ten codes of the table     *)
(* and the bare numeral, with no trailing space, for every other code.     *)
(***************************************************************************)
C5_StatusText ==
    st_text # None =>
        /\ st_code = 200 => st_text = "200 OK"
        /\ st_code = 201 => st_text = "201 Created"
        /\ st_code = 204 => st_text = "204 No Content"
        /\ st_code = 400 => st_text = "400 Bad Request"
        /\ st_code = 401 => st_text = "401 Unauthorized"
        /\ st_code = 403 => st_text = "403 Forbidden"
        /\ st_code = 404 => st_text = "404 Not Found"
        /\ st_code = 500 => st_text = "500 Internal Server Error"
        /\ st_code = 502 => st_text = "502 Bad Gateway"
        /\ st_code = 503 => st_text = "503 Service Unavailable"
        /\ st_code \notin {200, 201, 204, 400, 401, 403, 404, 500, 502, 503} =>
            /\ st_text = ToString(st_code)
            /\ Len(st_text) = (IF st_code = 0 THEN 1 ELSE 3)

\* 418 is outside the table and rendered bare.
C5_Witness ==
    /\ st_code = 418
    /\ st_text = "418"

====
